---- MODULE Spec2Model ----
(***************************************************************************)
(* starbox: a starfield rendered onto a six-face cube map (src/main.rs).   *)
(*                                                                         *)
(* The model has three layers:                                             *)
(*   1. the arithmetic the program runs on: IEEE-754 binary32 (f32) and    *)
(*      binary16 (half::f16) with round-to-nearest-even, and u32 integers  *)
(*      with their wrap-or-panic behaviour on overflow;                    *)
(*   2. the pure functions project and address, and the accumulation step  *)
(*      of run's loop body;                                                *)
(*   3. run itself as a state machine (Spec), and three specifications     *)
(*      that apply the pure functions to inputs drawn in their initial     *)
(*      states (SpecProj, SpecAddr, SpecAcc).                              *)
(*                                                                         *)
(* Intermediate values are handed from one operator to the next as         *)
(* parameters rather than named in a LET, which keeps each value computed  *)
(* in one place.                                                           *)
(***************************************************************************)
EXTENDS Integers, Sequences, FiniteSets, TLC

(***************************************************************************)
(* 1a. Floating point.  A float is a record                                *)
(*        [k: "fin" | "inf" | "nan", s: 0 | 1, m: Nat, e: Int]             *)
(* whose finite value is (-1)^s * m * 2^e.  A format gives the significand *)
(* width p, the exponent emin of the last place of its subnormals and the  *)
(* exponent emax of the last place of its top binade.  A finite value of a *)
(* format is kept canonical: m < 2^p, and m >= 2^(p-1) unless e = emin;    *)
(* zero is m = 0, e = 0.                                                   *)
(***************************************************************************)
F32 == [p |-> 24, emin |-> -149, emax |-> 104]
F16 == [p |-> 11, emin |-> -24, emax |-> 5]

Fin(s, m, e) == [k |-> "fin", s |-> s, m |-> m, e |-> e]
Inf(s) == [k |-> "inf", s |-> s, m |-> 0, e |-> 0]
NaN == [k |-> "nan", s |-> 0, m |-> 0, e |-> 0]

Max(a, b) == IF a >= b THEN a ELSE b

RECURSIVE BitLen(_)
BitLen(n) == IF n = 0 THEN 0 ELSE 1 + BitLen(n \div 2)

\* A rounded significand m at exponent e, as a value of the format: overflow
\* of the exponent range gives infinity.
Pack(fmt, s, m, e) ==
    IF m = 0 THEN Fin(s, 0, 0)
    ELSE IF e > fmt.emax THEN Inf(s)
    ELSE Fin(s, m, e)

\* The significand after rounding: q is the part kept, r the part cut off,
\* half the weight of half a unit of q.  Nearest, ties to even.
RoundUp(q, r, half, sticky) ==
    IF r > half \/ (r = half /\ (sticky \/ q % 2 = 1)) THEN q + 1 ELSE q

RoundCarry(fmt, s, et, m1) ==
    IF m1 = 2^fmt.p THEN Pack(fmt, s, 2^(fmt.p - 1), et + 1) ELSE Pack(fmt, s, m1, et)

\* n * 2^e rounded to a significand at exponent et; L is the bit length of n.
RoundAt(fmt, s, n, e, sticky, L, et) ==
    IF et <= e THEN Pack(fmt, s, n * 2^(e - et), et)
    ELSE IF et - e > L THEN Fin(s, 0, 0)
    ELSE IF et - e = L THEN RoundCarry(fmt, s, et, RoundUp(0, n, 2^(L - 1), sticky))
    ELSE RoundCarry(fmt, s, et,
                    RoundUp(n \div 2^(et - e), n % 2^(et - e), 2^(et - e - 1), sticky))

\* Round-to-nearest, ties-to-even, of the exact value n * 2^e (plus a positive
\* amount below one unit of n when sticky) to the format.  When sticky is set
\* n carries at least p + 2 bits.
Round(fmt, s, n, e, sticky) ==
    IF n = 0 THEN Fin(s, 0, 0)
    ELSE RoundAt(fmt, s, n, e, sticky, BitLen(n), Max(e + BitLen(n) - fmt.p, fmt.emin))

\* An f32 literal m * 2^e, and an integer `as f32`.
Lit(m, e) == Round(F32, IF m < 0 THEN 1 ELSE 0, IF m < 0 THEN -m ELSE m, e, FALSE)
IntToF32(n) == Lit(n, 0)

\* f16 -> f32 (`.into()`, exact) and f32 -> f16 (f16::from_f32: rounding,
\* out of range to infinity, NaN to NaN).
F16ToF32(h) == IF h.k = "fin" THEN Round(F32, h.s, h.m, h.e, FALSE) ELSE h
F16FromF32(x) == IF x.k = "fin" THEN Round(F16, x.s, x.m, x.e, FALSE) ELSE x

\* The significand shifted up to exactly 24 bits (the exponent is unbounded
\* here: this is the operand as the arithmetic sees it).
NormBy(x, k) == [m |-> x.m * 2^k, e |-> x.e - k]
Norm24(x) == NormBy(x, 24 - BitLen(x.m))

IsZero(x) == x.k = "fin" /\ x.m = 0

\* -1, 0, 1: the order of two magnitudes.
CmpNorm(x, y) ==
    IF x.e # y.e THEN (IF x.e > y.e THEN 1 ELSE -1)
    ELSE IF x.m # y.m THEN (IF x.m > y.m THEN 1 ELSE -1)
    ELSE 0

CmpMag(a, b) ==
    IF a.m = 0 /\ b.m = 0 THEN 0
    ELSE IF a.m = 0 THEN -1
    ELSE IF b.m = 0 THEN 1
    ELSE CmpNorm(Norm24(a), Norm24(b))

\* -1, 0, 1: the order of two non-NaN floats (+0 and -0 compare equal).
Cmp(a, b) ==
    IF a.k = "inf" /\ b.k = "inf" THEN (IF a.s = b.s THEN 0 ELSE IF a.s = 0 THEN 1 ELSE -1)
    ELSE IF a.k = "inf" THEN (IF a.s = 0 THEN 1 ELSE -1)
    ELSE IF b.k = "inf" THEN (IF b.s = 0 THEN -1 ELSE 1)
    ELSE IF IsZero(a) /\ IsZero(b) THEN 0
    ELSE IF IsZero(a) THEN (IF b.s = 0 THEN -1 ELSE 1)
    ELSE IF IsZero(b) THEN (IF a.s = 0 THEN 1 ELSE -1)
    ELSE IF a.s # b.s THEN (IF a.s = 0 THEN 1 ELSE -1)
    ELSE IF a.s = 0 THEN CmpMag(a, b) ELSE -CmpMag(a, b)

\* The comparison operators: every comparison with NaN is false.
FGt(a, b) == a.k # "nan" /\ b.k # "nan" /\ Cmp(a, b) = 1
FGe(a, b) == a.k # "nan" /\ b.k # "nan" /\ Cmp(a, b) >= 0
FEq(a, b) == a.k # "nan" /\ b.k # "nan" /\ Cmp(a, b) = 0

FAbs(x) == IF x.k = "nan" THEN x ELSE [x EXCEPT !.s = 0]
FNeg(x) == IF x.k = "nan" THEN x ELSE [x EXCEPT !.s = 1 - x.s]

\* f32::min: the smaller operand; a NaN operand gives the other one.
FMin(a, b) ==
    IF a.k = "nan" THEN b
    ELSE IF b.k = "nan" THEN a
    ELSE IF Cmp(a, b) <= 0 THEN a ELSE b

\* a + b in f32.  x is the operand of larger magnitude, kept with 5 guard
\* bits (M1); y is aligned to it (M2), the bits shifted out collected in the
\* sticky flag st.
AddOut(xs, e, st, n) ==
    IF n = 0 /\ ~st THEN Fin(0, 0, 0) ELSE Round(F32, xs, n, e, st)

AddSig(xs, ys, e, M1, M2, st) ==
    AddOut(xs, e, st, IF xs = ys THEN M1 + M2 ELSE M1 - M2 - (IF st THEN 1 ELSE 0))

AddAligned(xs, ys, x, y) ==
    AddSig(xs, ys, x.e - 5, x.m * 32,
           IF x.e - y.e <= 5 THEN y.m * 2^(5 - (x.e - y.e))
           ELSE IF x.e - y.e - 5 >= 24 THEN 0
           ELSE y.m \div 2^(x.e - y.e - 5),
           x.e - y.e > 5 /\ (x.e - y.e - 5 >= 24 \/ y.m % 2^(x.e - y.e - 5) # 0))

AddNorm(sa, sb, na, nb) ==
    IF na.e > nb.e \/ (na.e = nb.e /\ na.m >= nb.m)
    THEN AddAligned(sa, sb, na, nb)
    ELSE AddAligned(sb, sa, nb, na)

AddFin(a, b) == AddNorm(a.s, b.s, Norm24(a), Norm24(b))

FAdd(a, b) ==
    IF a.k = "nan" \/ b.k = "nan" THEN NaN
    ELSE IF a.k = "inf" THEN (IF b.k = "inf" /\ b.s # a.s THEN NaN ELSE a)
    ELSE IF b.k = "inf" THEN b
    ELSE IF a.m = 0 /\ b.m = 0 THEN Fin(IF a.s = 1 /\ b.s = 1 THEN 1 ELSE 0, 0, 0)
    ELSE IF a.m = 0 THEN b
    ELSE IF b.m = 0 THEN a
    ELSE AddFin(a, b)

FSub(a, b) == FAdd(a, FNeg(b))

\* a * b in f32: the 48-bit product of the two 24-bit significands, built
\* from their 12-bit halves, cut to its top 29 bits and a sticky flag.
MulHiLo(s, e, hi, low) ==
    Round(F32, s, (hi + low \div 2^24) * 32 + (low % 2^24) \div 2^19, e,
          (low % 2^24) % 2^19 # 0)

MulSum(s, e, hh, mid, ll) ==
    MulHiLo(s, e, hh + mid \div 4096, (mid % 4096) * 4096 + ll)

MulParts(s, e, a1, a0, b1, b0) == MulSum(s, e, a1 * b1, a1 * b0 + a0 * b1, a0 * b0)

MulNorm(s, x, y) ==
    MulParts(s, x.e + y.e + 19, x.m \div 4096, x.m % 4096, y.m \div 4096, y.m % 4096)

MulFin(a, b) == MulNorm((a.s + b.s) % 2, Norm24(a), Norm24(b))

FMul(a, b) ==
    IF a.k = "nan" \/ b.k = "nan" THEN NaN
    ELSE IF a.k = "inf" \/ b.k = "inf"
         THEN (IF IsZero(a) \/ IsZero(b) THEN NaN ELSE Inf((a.s + b.s) % 2))
    ELSE IF a.m = 0 \/ b.m = 0 THEN Fin((a.s + b.s) % 2, 0, 0)
    ELSE MulFin(a, b)

\* One step of long division: `bits` more quotient bits of r / d.
DivStep(qr, d, bits) ==
    [q |-> qr.q * 2^bits + (qr.r * 2^bits) \div d, r |-> (qr.r * 2^bits) % d]

DivOut(s, e, qr) == Round(F32, s, qr.q, e, qr.r # 0)

\* a / b in f32: 28 quotient bits by long division, the remainder as sticky.
DivNorm(s, x, y) ==
    DivOut(s, x.e - y.e - 27,
           DivStep(DivStep(DivStep(DivStep(DivStep(
               [q |-> x.m \div y.m, r |-> x.m % y.m], y.m, 6), y.m, 6), y.m, 6), y.m, 6), y.m, 3))

DivFin(a, b) == DivNorm((a.s + b.s) % 2, Norm24(a), Norm24(b))

FDiv(a, b) ==
    IF a.k = "nan" \/ b.k = "nan" THEN NaN
    ELSE IF a.k = "inf" THEN (IF b.k = "inf" THEN NaN ELSE Inf((a.s + b.s) % 2))
    ELSE IF b.k = "inf" THEN Fin((a.s + b.s) % 2, 0, 0)
    ELSE IF b.m = 0 THEN (IF a.m = 0 THEN NaN ELSE Inf((a.s + b.s) % 2))
    ELSE IF a.m = 0 THEN Fin((a.s + b.s) % 2, 0, 0)
    ELSE DivFin(a, b)

\* Square root by digit recurrence.  N is the radicand's significand, 13 bit
\* pairs, followed by 13 zero pairs; each step brings down one pair and
\* decides one bit of the root.

RECURSIVE SqrtSteps(_, _, _, _)
SqrtSteps(N, i, root, rem) ==
    IF i = 0 THEN [root |-> root, rem |-> rem]
    ELSE IF rem * 4 + (IF i > 13 THEN (N \div 4^(i - 14)) % 4 ELSE 0) >= root * 4 + 1
    THEN SqrtSteps(N, i - 1, root * 2 + 1,
                   rem * 4 + (IF i > 13 THEN (N \div 4^(i - 14)) % 4 ELSE 0) - (root * 4 + 1))
    ELSE SqrtSteps(N, i - 1, root * 2,
                   rem * 4 + (IF i > 13 THEN (N \div 4^(i - 14)) % 4 ELSE 0))

SqrtOut(e, res) == Round(F32, 0, res.root, e, res.rem # 0)

SqrtNorm(x) ==
    IF x.e % 2 = 0
    THEN SqrtOut((x.e - 2) \div 2 - 13, SqrtSteps(x.m * 4, 26, 0, 0))
    ELSE SqrtOut((x.e - 1) \div 2 - 13, SqrtSteps(x.m * 2, 26, 0, 0))

SqrtFin(a) == SqrtNorm(Norm24(a))

FSqrt(a) ==
    IF a.k = "nan" THEN NaN
    ELSE IF IsZero(a) THEN a
    ELSE IF a.s = 1 THEN NaN
    ELSE IF a.k = "inf" THEN a
    ELSE SqrtFin(a)

(***************************************************************************)
(* 1b. u32.  A u32 is [hi, lo], two 16-bit halves.  Every operation gives  *)
(* the wrapped result v and a flag ovf that is set when the exact result   *)
(* does not fit: a debug build panics there, a release build goes on with  *)
(* v.                                                                      *)
(***************************************************************************)
U32(n) == [hi |-> n \div 65536, lo |-> n % 65536]
U32Max == [hi |-> 65535, lo |-> 65535]
ToNat(u) == u.hi * 65536 + u.lo

ULt(a, b) == a.hi < b.hi \/ (a.hi = b.hi /\ a.lo < b.lo)

\* The 32-bit product of two 16-bit halves, from the two 8-bit halves of x.
Mul16Sum(p1, t) == [hi |-> p1 \div 256 + t \div 65536, lo |-> t % 65536]
Mul16Parts(p1, p0) == Mul16Sum(p1, (p1 % 256) * 256 + p0)
Mul16(x, y) == Mul16Parts((x \div 256) * y, (x % 256) * y)

UMulSum(a, b, ll, hl, lh) ==
    [v |-> [hi |-> (hl.lo + lh.lo + ll.hi) % 65536, lo |-> ll.lo],
     ovf |-> (a.hi # 0 /\ b.hi # 0) \/ hl.hi # 0 \/ lh.hi # 0
             \/ hl.lo + lh.lo + ll.hi >= 65536]

UMul(a, b) == UMulSum(a, b, Mul16(a.lo, b.lo), Mul16(a.hi, b.lo), Mul16(a.lo, b.hi))

UAddSum(hi, lo) == [v |-> [hi |-> hi % 65536, lo |-> lo % 65536], ovf |-> hi >= 65536]
UAdd(a, b) == UAddSum(a.hi + b.hi + (a.lo + b.lo) \div 65536, a.lo + b.lo)

USubDiff(hi, lo) == [v |-> [hi |-> hi % 65536, lo |-> lo % 65536], ovf |-> hi < 0]
USub(a, b) == USubDiff(a.hi - b.hi - (IF a.lo < b.lo THEN 1 ELSE 0), a.lo - b.lo)

\* `u as f32`: the nearest f32.
U32ToF32(u) ==
    IF u.hi < 32768 THEN IntToF32(u.hi * 65536 + u.lo)
    ELSE Round(F32, 0, u.hi * 4096 + u.lo \div 16, 4, u.lo % 16 # 0)

\* `x as u32`: truncation toward zero, saturating at the ends of the range,
\* NaN to 0.
F32ToU32(x) ==
    IF x.k = "nan" THEN U32(0)
    ELSE IF x.s = 1 THEN U32(0)
    ELSE IF x.k = "inf" THEN U32Max
    ELSE IF x.m = 0 THEN U32(0)
    ELSE IF x.e < 0 THEN (IF -x.e >= 24 THEN U32(0) ELSE U32(x.m \div 2^(-x.e)))
    ELSE IF BitLen(x.m) + x.e > 32 THEN U32Max
    ELSE IF x.e <= 16 THEN [hi |-> x.m \div 2^(16 - x.e), lo |-> (x.m % 2^(16 - x.e)) * 2^x.e]
    ELSE [hi |-> x.m * 2^(x.e - 16), lo |-> 0]

(***************************************************************************)
(* 2a. Face, project and address.                                          *)
(***************************************************************************)
Face == {"PX", "NX", "PY", "NY", "PZ", "NZ"}

\* `face as u32`: the discriminants of the enum.
FaceOrd(face) ==
    CASE face = "PX" -> 0
      [] face = "NX" -> 1
      [] face = "PY" -> 2
      [] face = "NY" -> 3
      [] face = "PZ" -> 4
      [] face = "NZ" -> 5

zero == Fin(0, 0, 0)
FOne == Fin(0, 8388608, -23)
FTwo == Fin(0, 8388608, -22)

Vec(x, y, z) == [x |-> x, y |-> y, z |-> z]
Vec2(x, y) == [x |-> x, y |-> y]

\* A variant of XDominant with strict comparisons: a tie goes to the next axis.
XDominantStrict(ax, ay, az) == FGt(ax, ay) /\ FGt(ax, az)

\* ax >= ay && ax >= az, and the second test ay >= az
XDominant(ax, ay, az) == FGe(ax, ay) /\ FGe(ax, az)
YDominant(ay, az) == FGe(ay, az)

\* A variant of Degenerate without the test for the zero vector.
DegenerateNever(ax) == FALSE

\* ax == 0.0
Degenerate(ax) == FEq(ax, zero)

\* if c > 0.0 { plus } else { minus }
Signed(c, plus, minus) == IF FGt(c, zero) THEN plus ELSE minus

\* A variant of FaceCoord that does not shift [-1, 1] to [0, 2].
FaceCoordNoBias(c, a, scale) == FMul(FDiv(FDiv(c, a), FTwo), scale)

\* (c / a + 1.0) / 2.0 * (res - 1) as f32
FaceCoord(c, a, scale) == FMul(FDiv(FAdd(FDiv(c, a), FOne), FTwo), scale)

projectOnto(n, ax, ay, az, scale, ovf) ==
    IF XDominant(ax, ay, az)
    THEN IF Degenerate(ax)
         THEN [face |-> "PX", pos |-> Vec2(zero, zero), ovf |-> FALSE]
         ELSE [face |-> Signed(n.x, "PX", "NX"),
               pos |-> Vec2(FaceCoord(n.y, ax, scale), FaceCoord(n.z, ax, scale)),
               ovf |-> ovf]
    ELSE IF YDominant(ay, az)
    THEN [face |-> Signed(n.y, "PY", "NY"),
          pos |-> Vec2(FaceCoord(n.x, ay, scale), FaceCoord(n.z, ay, scale)),
          ovf |-> ovf]
    ELSE [face |-> Signed(n.z, "PZ", "NZ"),
          pos |-> Vec2(FaceCoord(n.x, az, scale), FaceCoord(n.y, az, scale)),
          ovf |-> ovf]

projectScaled(n, rm1) ==
    projectOnto(n, FAbs(n.x), FAbs(n.y), FAbs(n.z), U32ToF32(rm1.v), rm1.ovf)

\* project(res, n): the face of the dominant axis and the position on it.
\* res is a u32, n a vector [x, y, z] of f32.  ovf: res - 1 overflowed.
project(res, n) == projectScaled(n, USub(res, U32(1)))

\* The buffer coordinates (x, y), still f32, of a face position.
faceXY(face, pos, y_min, y_max, x_max) ==
    CASE face = "PX" -> Vec2(pos.y, FSub(y_max, pos.x))
      [] face = "NX" -> Vec2(FSub(x_max, pos.y), FSub(y_max, pos.x))
      [] face = "PY" -> Vec2(pos.x, FSub(y_max, pos.y))
      [] face = "NY" -> Vec2(pos.x, FAdd(y_min, pos.y))
      [] face = "PZ" -> Vec2(FSub(x_max, pos.x), FSub(y_max, pos.y))
      [] face = "NZ" -> Vec2(pos.x, FSub(y_max, pos.y))

\* y_min = (face as u32 * res) as f32; x_max = (res - 1) as f32;
\* y_max = y_min + (res - 1) as f32
faceBounds(face, pos, y_min, x_max) ==
    faceXY(face, pos, y_min, FAdd(y_min, x_max), x_max)

\* x as u32 + y as u32 * res
indexSum(xi, yi, row, ovf) ==
    [x |-> xi, y |-> yi, index |-> UAdd(xi, row.v).v,
     ovf |-> ovf \/ row.ovf \/ UAdd(xi, row.v).ovf]

indexOf(res, xi, yi, ovf) == indexSum(xi, yi, UMul(yi, res), ovf)

addressXY(res, xy, ovf) == indexOf(res, F32ToU32(xy.x), F32ToU32(xy.y), ovf)

addressIn(res, face, pos, fr, rm1) ==
    addressXY(res, faceBounds(face, pos, U32ToF32(fr.v), U32ToF32(rm1.v)),
              fr.ovf \/ rm1.ovf)

\* address(res, face, pos): the index, with the column x and the row y it
\* was built from.  ovf: one of the u32 operations overflowed.
address(res, face, pos) ==
    addressIn(res, face, pos, UMul(U32(FaceOrd(face)), res), USub(res, U32(1)))

(***************************************************************************)
(* 2b. The loop body of run: a star's irradiance at the viewer and its     *)
(* accumulation into the pixel it falls on.  A pixel is the tuple          *)
(* (f16, f16) of the two channels, "Y" (irradiance) and "T" (temperature). *)
(***************************************************************************)
\* half::consts::MAX = 65504, as f16.
HalfMax == Fin(0, 2047, 5)

\* (1e15 * (SOLAR_LUMINOSITY / (GALAXY_RADIUS * GALAXY_RADIUS))) as f32:
\* 0.3828 to the nearest f32.
SCALING_FACTOR == Fin(0, 12844637, -25)

ZeroPixel == [Y |-> zero, T |-> zero]

\* na::norm(&vector): the Euclidean length.
norm(v) == FSqrt(FAdd(FAdd(FMul(v.x, v.x), FMul(v.y, v.y)), FMul(v.z, v.z)))

\* x.powi(2)
powi2(x) == FMul(x, x)

\* SCALING_FACTOR * star.intensity / na::norm(&vector).powi(2)
Irradiance(intensity, vector) ==
    FDiv(FMul(SCALING_FACTOR, intensity), powi2(norm(vector)))

\* A variant of Positive that lets a zero total through.
PositiveOrZero(total) == FGe(total, zero)

\* The guard of the write-back: old_irradiance + irradiance > 0.0
Positive(total) == FGt(total, zero)

\* A variant of Clamp that stores the total as it is.
ClampNone(total) == total

\* (old_irradiance + irradiance).min(half::consts::MAX.into())
Clamp(total) == FMin(total, F16ToF32(HalfMax))

\* A variant of Blend that averages the two temperatures without weights.
BlendUnweighted(old_temp, old_irradiance, temperature, irradiance) ==
    FDiv(FAdd(old_temp, temperature), FTwo)

\* (old_temp * old_irradiance + star.temperature * irradiance)
\*     / (old_irradiance + irradiance)
Blend(old_temp, old_irradiance, temperature, irradiance) ==
    FDiv(FAdd(FMul(old_temp, old_irradiance), FMul(temperature, irradiance)),
         FAdd(old_irradiance, irradiance))

accumulateInto(out, old_irradiance, old_temp, irradiance, temperature) ==
    IF Positive(FAdd(old_irradiance, irradiance))
    THEN [Y |-> F16FromF32(Clamp(FAdd(old_irradiance, irradiance))),
          T |-> F16FromF32(Blend(old_temp, old_irradiance, temperature, irradiance))]
    ELSE out

\* The pixel `out` after a star of the given irradiance and temperature is
\* folded into it.
accumulate(out, irradiance, temperature) ==
    accumulateInto(out, F16ToF32(out.Y), F16ToF32(out.T), irradiance, temperature)

(***************************************************************************)
(* 3. run as a state machine.                                              *)
(*                                                                         *)
(*   pc          where run is: "start", "parsed" (arguments read),         *)
(*               "opened" (output file and encoder ready), "loop" (the     *)
(*               star loop), "done" (Ok), "failed" (Err returned),         *)
(*               "panicked"                                                *)
(*   build       "debug" (arithmetic overflow panics) or "release" (wraps) *)
(*   res         the resolution, a u32                                     *)
(*   number      the number of stars to draw                               *)
(*   i           the number of stars drawn so far                          *)
(*   buffer      the life of pixel_data: "uninitialized" before the        *)
(*               allocation, "accumulating" from it to the hand-over,      *)
(*               "finalized" once the frame buffer took it                 *)
(*   len         the allocated length of pixel_data, a u32                 *)
(*   pixel_data  index -> pixel                                            *)
(*   star        the last star drawn, with what the loop body computed     *)
(*               from it: `hit` says that pixel_data[index] was reached,   *)
(*               `old` is the pixel found there                            *)
(*   handed      how often pixel_data was handed to write_pixels           *)
(*   arg, ret    the inputs and results of SpecProj, SpecAddr and SpecAcc  *)
(*                                                                         *)
(* The diagnostics max, sum and c (Kahan summation) are printed and never  *)
(* read back: they are left out.  The star count is drawn directly, in     *)
(* stars, up to MaxNumber.                                                 *)
(***************************************************************************)
VARIABLES pc, build, res, number, i, buffer, len, pixel_data, star, handed, arg, ret

vars == <<pc, build, res, number, i, buffer, len, pixel_data, star, handed, arg, ret>>

MaxNumber == 2

\* Resolutions run is started with: tiny cubes, and one past the u32 range
\* of res * 6 * res.
RunRes == {1, 2, 65536}

\* star.position - viewer, star.intensity and star.temperature of the stars
\* galaxy.star(&mut rng) can return.  The zero vector is a star at the
\* viewer's own position; intensity 0 is a luminosity below the f32 range.
StarVectors ==
    {Vec(zero, zero, zero),
     Vec(FOne, zero, zero),
     Vec(Lit(-1, 0), Lit(2, 0), Lit(-2, 0))}
StarIntensities == {zero, FOne, Lit(1, 20)}
StarTemperatures == {Lit(5777, 0), Lit(20000, 0)}

NoStar == [drawn |-> FALSE]
NoCall == [step |-> "none"]

\* run before its first statement.
RunInit ==
    /\ pc = "start"
    /\ build \in {"debug", "release"}
    /\ res = U32(0)
    /\ number = 0
    /\ i = 0
    /\ buffer = "uninitialized"
    /\ len = U32(0)
    /\ pixel_data = <<>>
    /\ star = NoStar
    /\ handed = 0

Init ==
    /\ RunInit
    /\ arg = NoCall
    /\ ret = NoCall

\* Lines 24-44: the arguments.  A resolution or a number that does not parse
\* ends run with an error.
Parse ==
    /\ pc = "start"
    /\ \/ \E r \in RunRes, n \in 0..MaxNumber :
             /\ res' = U32(r)
             /\ number' = n
             /\ pc' = "parsed"
       \/ /\ pc' = "failed"
          /\ UNCHANGED <<res, number>>
    /\ UNCHANGED <<build, i, buffer, len, pixel_data, star, handed, arg, ret>>

\* res * res * 6 * 2 * 2 of line 45, left to right: whether it overflows.
SizeOverflows(r) ==
    \/ UMul(r, r).ovf
    \/ UMul(UMul(r, r).v, U32(6)).ovf
    \/ UMul(UMul(UMul(r, r).v, U32(6)).v, U32(2)).ovf
    \/ UMul(UMul(UMul(UMul(r, r).v, U32(6)).v, U32(2)).v, U32(2)).ovf

\* Lines 45-55: the size is printed, the file created, the encoder set up.
Open ==
    /\ pc = "parsed"
    /\ IF build = "debug" /\ SizeOverflows(res)
       THEN pc' = "panicked"
       ELSE pc' \in {"opened", "failed"}
    /\ UNCHANGED <<build, res, number, i, buffer, len, pixel_data, star, handed, arg, ret>>

\* (res * 6 * res) as usize of line 58.
BufferLenOf(r, r6) == [v |-> UMul(r6.v, r).v, ovf |-> r6.ovf \/ UMul(r6.v, r).ovf]
BufferLen(r) == BufferLenOf(r, UMul(r, U32(6)))

Allocate(n) ==
    /\ pc' = "loop"
    /\ buffer' = "accumulating"
    /\ len' = n.v
    /\ pixel_data' = [k \in 0..(ToNat(n.v) - 1) |-> ZeroPixel]

\* Lines 57-65: pixel_data is allocated, all (zero, zero).
Alloc ==
    /\ pc = "opened"
    /\ IF build = "debug" /\ BufferLen(res).ovf
       THEN /\ pc' = "panicked"
            /\ UNCHANGED <<buffer, len, pixel_data>>
       ELSE Allocate(BufferLen(res))
    /\ UNCHANGED <<build, res, number, i, star, handed, arg, ret>>

\* What one pass of the loop body computes from a star, up to the access
\* pixel_data[index].
DrawnAt(vector, intensity, temperature, p, a) ==
    [drawn |-> TRUE, vector |-> vector, intensity |-> intensity,
     temperature |-> temperature, face |-> p.face, pos |-> p.pos,
     index |-> a.index, ovf |-> p.ovf \/ a.ovf,
     irradiance |-> Irradiance(intensity, vector),
     hit |-> FALSE, old |-> ZeroPixel]

DrawnOn(vector, intensity, temperature, p) ==
    DrawnAt(vector, intensity, temperature, p, address(res, p.face, p.pos))

Drawn(vector, intensity, temperature) ==
    DrawnOn(vector, intensity, temperature, project(res, vector))

\* A variant of MoreStars that leaves the loop one star early.
MoreStarsEarly == i + 1 < number

\* The loop goes on while i < number.
MoreStars == i < number

\* let out = &mut pixel_data[index as usize]: the access is in bounds.
InBounds(index) == ULt(index, len)

DrawStar(d) ==
    IF (build = "debug" /\ d.ovf) \/ ~InBounds(d.index)
    THEN /\ star' = d
         /\ pc' = "panicked"
         /\ UNCHANGED <<i, pixel_data>>
    ELSE /\ star' = [d EXCEPT !.hit = TRUE, !.old = pixel_data[ToNat(d.index)]]
         /\ pc' = "loop"
         /\ i' = i + 1
         /\ pixel_data' = [pixel_data EXCEPT ![ToNat(d.index)] =
                              accumulate(@, d.irradiance, d.temperature)]

\* Lines 66-93: one star is drawn, projected, addressed and folded into its
\* pixel.  An overflow in a debug build, and an index outside pixel_data in
\* any build, is a panic.
Draw ==
    /\ pc = "loop"
    /\ MoreStars
    /\ \E v \in StarVectors, it \in StarIntensities, t \in StarTemperatures :
          DrawStar(Drawn(v, it, t))
    /\ UNCHANGED <<build, res, number, buffer, len, handed, arg, ret>>

\* Lines 96-102: after the loop the frame buffer takes pixel_data and is
\* written; the write succeeds or fails.
Write ==
    /\ pc = "loop"
    /\ ~MoreStars
    /\ buffer' = "finalized"
    /\ handed' = handed + 1
    /\ pc' \in {"done", "failed"}
    /\ UNCHANGED <<build, res, number, i, len, pixel_data, star, arg, ret>>

Next == Parse \/ Open \/ Alloc \/ Draw \/ Write

Spec == Init /\ [][Next]_vars

(***************************************************************************)
(* 4. project, address and the accumulation on their own.  The three       *)
(* specifications below apply the functions of section 2 to inputs drawn   *)
(* from bounded sets in the initial states; arg holds the inputs and ret   *)
(* the results, and the variables of run stay as RunInit leaves them.      *)
(***************************************************************************)
MaxCoord == 2
MaxUV == 1

run_vars == <<pc, build, res, number, i, buffer, len, pixel_data, star, handed>>

\* A component of a direction: the integer c, or c times 2^-149 (the
\* smallest f32) or 2^100 when s is -1 or 1.
Comps ==
    {[c |-> c, s |-> 0] : c \in -MaxCoord..MaxCoord}
    \cup {[c |-> c, s |-> s] : c \in {-1, 1}, s \in {-1, 1}}

CompF32(q) == Lit(q.c, CASE q.s = -1 -> -149 [] q.s = 0 -> 0 [] q.s = 1 -> 100)

VecF32(n) == Vec(CompF32(n.x), CompF32(n.y), CompF32(n.z))

\* Resolutions: the smallest, the one of the test, the largest whose buffer
\* length fits a u32 and one beyond it.
ProjRes == {0, 1, 2, 128, 26754, 65536}

InitProj ==
    /\ RunInit
    /\ arg \in {[step |-> "input", res |-> r, n |-> Vec(x, y, z)] :
                   r \in ProjRes, x \in Comps, y \in Comps, z \in Comps}
    /\ ret = NoCall

\* project(res, n) for a direction n
ProjCall ==
    /\ arg.step = "input"
    /\ arg' = [arg EXCEPT !.step = "projected"]
    /\ ret' = [step |-> "projected", p |-> project(U32(arg.res), VecF32(arg.n))]
    /\ UNCHANGED run_vars

\* address(res, face, pos) for what project returned
ProjAddress ==
    /\ arg.step = "projected"
    /\ arg' = [arg EXCEPT !.step = "addressed"]
    /\ ret' = [step |-> "addressed", p |-> ret.p,
               a |-> address(U32(arg.res), ret.p.face, ret.p.pos)]
    /\ UNCHANGED run_vars

NextProj == ProjCall \/ ProjAddress

SpecProj == InitProj /\ [][NextProj]_vars

AddrRes == {1, 2, 3, 128, 26754, 65536}

\* The integer face positions tried at resolution r: those within MaxUV of
\* either end of 0..r-1.
Edge(r) == {u \in 0..(r - 1) : u <= MaxUV \/ u >= r - 1 - MaxUV}

InitAddr ==
    /\ RunInit
    /\ arg \in UNION {{[step |-> "input", res |-> r, face |-> f, u |-> u, v |-> v] :
                          f \in Face, u \in Edge(r), v \in Edge(r)} : r \in AddrRes}
    /\ ret = NoCall

\* address(res, face, (u, v)) for an integer face position
AddrCall ==
    /\ arg.step = "input"
    /\ arg' = [arg EXCEPT !.step = "address"]
    /\ ret' = address(U32(arg.res), arg.face, Vec2(IntToF32(arg.u), IntToF32(arg.v)))
    /\ UNCHANGED run_vars

NextAddr == AddrCall

SpecAddr == InitAddr /\ [][NextAddr]_vars

\* Irradiances and temperatures of the two stars, as integers.  2049 and
\* 1000000 are no f16 values, nor is 5777.
AccIrradiances == {0, 1, 3, 2049, 40000, 65504, 1000000}
AccTemperatures == {3000, 5777, 20000}

\* The pixels ab and ba start as the allocation leaves them.
InitAcc ==
    /\ RunInit
    /\ arg \in {[step |-> "input", a |-> a, Ta |-> Ta, b |-> b, Tb |-> Tb] :
                   a \in AccIrradiances, b \in AccIrradiances,
                   Ta \in AccTemperatures, Tb \in AccTemperatures}
    /\ ret = [ab |-> ZeroPixel, ba |-> ZeroPixel]

\* Star (a, Ta) goes first into the pixel ab and star (b, Tb) first into the
\* pixel ba.
AccFirst ==
    /\ arg.step = "input"
    /\ arg' = [arg EXCEPT !.step = "first"]
    /\ ret' = [ab |-> accumulate(ret.ab, IntToF32(arg.a), IntToF32(arg.Ta)),
               ba |-> accumulate(ret.ba, IntToF32(arg.b), IntToF32(arg.Tb))]
    /\ UNCHANGED run_vars

\* The other star follows in each pixel.
AccSecond ==
    /\ arg.step = "first"
    /\ arg' = [arg EXCEPT !.step = "second"]
    /\ ret' = [ab |-> accumulate(ret.ab, IntToF32(arg.b), IntToF32(arg.Tb)),
               ba |-> accumulate(ret.ba, IntToF32(arg.a), IntToF32(arg.Ta))]
    /\ UNCHANGED run_vars

NextAcc == AccFirst \/ AccSecond

SpecAcc == InitAcc /\ [][NextAcc]_vars

(***************************************************************************)
(* 5. The claims.                                                          *)
(***************************************************************************)
Abs(n) == IF n < 0 THEN -n ELSE n

\* The order of the magnitudes of two components, decided on integers:
\* 0 < 2^-149 < 1 <= |c| <= MaxCoord < 2^100.
Magnitude(q) ==
    CASE q.s = -1 -> 1
      [] q.s = 1 -> MaxCoord + 2
      [] q.s = 0 -> IF q.c = 0 THEN 0 ELSE 1 + Abs(q.c)

NoComp == [c |-> 0, s |-> 0]
ZeroDirection == Vec(NoComp, NoComp, NoComp)

Projected == arg.step \in {"projected", "addressed"}

\* The face the selection rule names for the direction n.
RuleFace(n) ==
    IF Magnitude(n.x) >= Magnitude(n.y) /\ Magnitude(n.x) >= Magnitude(n.z)
    THEN (IF n.x.c > 0 THEN "PX" ELSE "NX")
    ELSE IF Magnitude(n.y) >= Magnitude(n.z)
    THEN (IF n.y.c > 0 THEN "PY" ELSE "NY")
    ELSE (IF n.z.c > 0 THEN "PZ" ELSE "NZ")

\* C1: after any sequence of star draws, the index the loop computed for a
\* star came out of arithmetic that did not overflow and lies inside
\* pixel_data: 0 <= index < len.
DrawIndexInBounds ==
    star.drawn => (~star.ovf /\ ULt(star.index, len))

\* C2: for a nonzero direction project returns the X face when |x| >= |y| and
\* |x| >= |z|, else the Y face when |y| >= |z|, else the Z face, + or - by
\* the sign of that component; |x| = |y| > |z| gives an X face, and a Z face
\* comes only from a |z| strictly above |x| and |y|.
FaceByDominantAxis ==
    (Projected /\ arg.res >= 1 /\ arg.n # ZeroDirection) =>
        /\ ret.p.face \in Face
        /\ ret.p.face = RuleFace(arg.n)
        /\ (Magnitude(arg.n.x) = Magnitude(arg.n.y)
              /\ Magnitude(arg.n.y) > Magnitude(arg.n.z)
                => ret.p.face \in {"PX", "NX"})
        /\ (ret.p.face \in {"PZ", "NZ"}
                => /\ Magnitude(arg.n.z) > Magnitude(arg.n.x)
                   /\ Magnitude(arg.n.z) > Magnitude(arg.n.y))

\* project has returned for a direction with x = -y and z = 0: the tie went
\* to the X axis.
TieGoesToX ==
    /\ arg.step = "projected"
    /\ arg.res >= 1
    /\ arg.n = Vec([c |-> -1, s |-> 0], [c |-> 1, s |-> 0], NoComp)
    /\ ret.p.face = "NX"

\* C3: at every resolution project maps the zero vector to face +X at
\* position (0, 0); nothing is divided and nothing overflows.
ZeroVectorIsPX ==
    (Projected /\ arg.n = ZeroDirection) =>
        /\ ret.p.face = "PX"
        /\ ret.p.pos = Vec2(zero, zero)
        /\ ~ret.p.ovf

ZeroVectorProjected ==
    /\ arg.step = "projected"
    /\ arg.n = ZeroDirection
    /\ arg.res = 0
    /\ ret.p.face = "PX"

\* Twice the value of a float that is a multiple of 1/2 (below 2^30).
HasHalves(f) ==
    /\ f.k = "fin"
    /\ \/ f.m = 0
       \/ f.e >= -1 /\ f.e <= 6
       \/ f.e < -1 /\ f.e >= -25 /\ f.m % 2^(-f.e - 1) = 0
Halves(f) == IF f.e >= -1 THEN f.m * 2^(f.e + 1) ELSE f.m \div 2^(-f.e - 1)

\* f is exactly (r - 1) / 2.
IsCentre(f, r) == HasHalves(f) /\ (f.s = 0 \/ f.m = 0) /\ Halves(f) = r - 1

OnAxis(n) ==
    \/ n.x # NoComp /\ n.y = NoComp /\ n.z = NoComp
    \/ n.x = NoComp /\ n.y # NoComp /\ n.z = NoComp
    \/ n.x = NoComp /\ n.y = NoComp /\ n.z # NoComp

AxisFace(n) ==
    IF n.x # NoComp THEN (IF n.x.c > 0 THEN "PX" ELSE "NX")
    ELSE IF n.y # NoComp THEN (IF n.y.c > 0 THEN "PY" ELSE "NY")
    ELSE (IF n.z.c > 0 THEN "PZ" ELSE "NZ")

\* C4: a direction along one coordinate axis projects to the face of that
\* axis and sign, at the face centre ((res - 1) / 2, (res - 1) / 2); at
\* res = 128 that is (63.5, 63.5).
AxisHitsFaceCentre ==
    (Projected /\ arg.res >= 1 /\ OnAxis(arg.n)) =>
        /\ ret.p.face = AxisFace(arg.n)
        /\ IsCentre(ret.p.pos.x, arg.res)
        /\ IsCentre(ret.p.pos.y, arg.res)
        /\ (arg.res = 128 => ret.p.pos = Vec2(Lit(127, -1), Lit(127, -1)))

MinusZAt128 ==
    /\ arg.step = "projected"
    /\ arg.res = 128
    /\ arg.n = Vec(NoComp, NoComp, [c |-> -1, s |-> 1])
    /\ ret.p.face = "NZ"
    /\ ret.p.pos = Vec2(Lit(127, -1), Lit(127, -1))

\* The column and the row the table gives for the face position (u, v) at
\* resolution r.
TableX(f, r, u, v) ==
    CASE f = "PX" -> v
      [] f = "NX" -> (r - 1) - v
      [] f = "PY" -> u
      [] f = "NY" -> u
      [] f = "PZ" -> (r - 1) - u
      [] f = "NZ" -> u

TableY(f, r, u, v) ==
    CASE f = "PX" -> (FaceOrd(f) * r + r - 1) - u
      [] f = "NX" -> (FaceOrd(f) * r + r - 1) - u
      [] f = "PY" -> (FaceOrd(f) * r + r - 1) - v
      [] f = "NY" -> FaceOrd(f) * r + v
      [] f = "PZ" -> (FaceOrd(f) * r + r - 1) - v
      [] f = "NZ" -> (FaceOrd(f) * r + r - 1) - v

\* C5: for each face and every integer position (u, v) in [0, res-1]^2,
\* address returns x + y * res for the (x, y) of the table; the sum and the
\* product are those of the integers, so nothing overflows.
AddressFollowsTable ==
    arg.step = "address" =>
        /\ ret.x = U32(TableX(arg.face, arg.res, arg.u, arg.v))
        /\ ret.y = U32(TableY(arg.face, arg.res, arg.u, arg.v))
        /\ ~ret.ovf
        /\ ret.index = UAdd(ret.x, UMul(ret.y, U32(arg.res)).v).v

\* The value of a float that is a non-negative integer (below 2^30).
IsInt(f) ==
    /\ f.k = "fin"
    /\ f.s = 0 \/ f.m = 0
    /\ \/ f.m = 0
       \/ f.e >= 0 /\ f.e <= 6
       \/ f.e < 0 /\ f.e >= -24 /\ f.m % 2^(-f.e) = 0
IntVal(f) == IF f.e >= 0 THEN f.m * 2^f.e ELSE f.m \div 2^(-f.e)

\* The integer n, at most 65504, is a value of the 16-bit format: it has at
\* most 11 significant bits.
InHalf(n) == n = 0 \/ \E k \in 0..5 : n % 2^k = 0 /\ n \div 2^k < 2048

\* C6 as stated: after (a, Ta) then (b, Tb) the pixel holds irradiance
\* a + b and temperature (Ta*a + Tb*b) / (a + b), and it is the same pixel
\* after (b, Tb) then (a, Ta), for all non-negative a and b.
AccumulateExactAnyOrder ==
    arg.step = "second" =>
        /\ ret.ab = ret.ba
        /\ IsInt(ret.ab.Y)
        /\ IntVal(ret.ab.Y) = arg.a + arg.b
        /\ (arg.a + arg.b > 0 =>
              /\ IsInt(ret.ab.T)
              /\ (arg.Ta * arg.a + arg.Tb * arg.b) % (arg.a + arg.b) = 0
              /\ IntVal(ret.ab.T) = (arg.Ta * arg.a + arg.Tb * arg.b) \div (arg.a + arg.b))

\* C6 as amended: when a, b, Ta and Tb are values of the 16-bit format, the
\* pixel after (a, Ta) then (b, Tb) holds the irradiance min(a + b, MAX)
\* and, when a + b > 0, the temperature (Ta*a + Tb*b) / (a + b), each
\* computed in f32 and rounded to the 16-bit format (a + b itself when that
\* is at most 2048), and it is the same pixel after (b, Tb) then (a, Ta).
AccumulateRoundedAnyOrder ==
    (arg.step = "second" /\ InHalf(arg.a) /\ InHalf(arg.b)
                         /\ InHalf(arg.Ta) /\ InHalf(arg.Tb)) =>
        /\ ret.ab = ret.ba
        /\ (arg.a + arg.b = 0 => ret.ab = ZeroPixel)
        /\ (arg.a + arg.b > 0 =>
              /\ ret.ab.Y = F16FromF32(FMin(FAdd(IntToF32(arg.a), IntToF32(arg.b)),
                                            Lit(65504, 0)))
              /\ ret.ab.T = F16FromF32(
                                FDiv(FAdd(FMul(IntToF32(arg.Ta), IntToF32(arg.a)),
                                          FMul(IntToF32(arg.Tb), IntToF32(arg.b))),
                                     FAdd(IntToF32(arg.a), IntToF32(arg.b)))))
        /\ (arg.a + arg.b <= 2048 =>
              IsInt(ret.ab.Y) /\ IntVal(ret.ab.Y) = arg.a + arg.b)

\* Irradiance 1 at 3000 K and irradiance 3 at 20000 K were folded in both
\* orders: the pixel holds 4 and 15752, the f16 next to 15750.
TwoStarsFolded ==
    /\ arg = [step |-> "second", a |-> 1, Ta |-> 3000, b |-> 3, Tb |-> 20000]
    /\ IsInt(ret.ab.Y) /\ IntVal(ret.ab.Y) = 4
    /\ IsInt(ret.ab.T) /\ IntVal(ret.ab.T) = 15752
    /\ ret.ba = ret.ab

\* The last star reached its pixel.
Hit == star.drawn /\ star.hit

\* C7: when the pixel's stored irradiance plus the star's irradiance is not
\* greater than zero, the accumulation leaves the pixel as it found it:
\* nothing is divided and no temperature is written.
ZeroSumKeepsPixel ==
    (Hit /\ ~FGt(FAdd(F16ToF32(star.old.Y), star.irradiance), zero)) =>
        pixel_data[ToNat(star.index)] = star.old

\* A star of irradiance 0 fell on an empty pixel, which stayed empty.
DarkStarOnEmptyPixel ==
    /\ Hit
    /\ IsZero(star.irradiance)
    /\ star.old = ZeroPixel
    /\ pixel_data[ToNat(star.index)] = ZeroPixel

\* C8: after any sequence of accumulations every pixel's stored irradiance is
\* finite and 0 <= irradiance <= MAX = 65504 = 2047 * 2^5.
IrradianceWithinFormat ==
    \A k \in DOMAIN pixel_data :
        /\ pixel_data[k].Y.k = "fin"
        /\ pixel_data[k].Y.s = 0 \/ pixel_data[k].Y.m = 0
        /\ \/ pixel_data[k].Y.e < 5
           \/ pixel_data[k].Y.e = 5 /\ pixel_data[k].Y.m <= 2047

\* A star brighter than MAX reached its pixel, which now holds MAX.
BrightStarClamped ==
    /\ Hit
    /\ star.irradiance.k = "fin"
    /\ FGt(star.irradiance, Lit(65504, 0))
    /\ pixel_data[ToNat(star.index)].Y = Fin(0, 2047, 5)

\* C9: the buffer goes uninitialized -> accumulating -> finalized and stays
\* there; it is allocated all zero; a pixel changes only while the buffer
\* is accumulating, one star of the `number` at a time; the buffer is
\* handed to the writer once, when the last star is in, and is not touched
\* afterwards.
BufferLifecycle ==
    [][/\ buffer' # buffer =>
             \/ buffer = "uninitialized" /\ buffer' = "accumulating"
             \/ buffer = "accumulating" /\ buffer' = "finalized"
       /\ (buffer = "uninitialized" /\ buffer' = "accumulating") =>
             /\ i' = 0
             /\ \A k \in DOMAIN pixel_data' : pixel_data'[k] = ZeroPixel
       /\ pixel_data' # pixel_data =>
             \/ buffer = "uninitialized" /\ buffer' = "accumulating"
             \/ /\ buffer = "accumulating" /\ buffer' = "accumulating"
                /\ i < number /\ i' = i + 1
       /\ handed' # handed =>
             /\ handed = 0 /\ handed' = 1
             /\ i = number
             /\ buffer = "accumulating" /\ buffer' = "finalized"
       /\ (buffer = "accumulating" /\ buffer' = "finalized") => handed' = handed + 1
       /\ buffer = "finalized" => (pixel_data' = pixel_data /\ i' = i)]_vars

\* run returned Ok after at least one star: the buffer is finalized, handed
\* over once, with every star in.
WrittenAfterAllStars ==
    /\ pc = "done"
    /\ number >= 1
    /\ i = number
    /\ buffer = "finalized"
    /\ handed = 1
    /\ Hit

\* C10: for every direction and resolution the index of
\* address(res, project(res, direction)) lies in the block of the face
\* project selected: no u32 operation overflowed, so index = x + y * res,
\* with the column x in [0, res-1] and the row y in
\* [face_ordinal*res, face_ordinal*res + res-1].
IndexInsideFaceBlock ==
    (arg.step = "addressed" /\ arg.res >= 1) =>
        /\ ~ret.p.ovf
        /\ ~ret.a.ovf
        /\ ULt(ret.a.x, U32(arg.res))
        /\ ~ULt(ret.a.y, U32(FaceOrd(ret.p.face) * arg.res))
        /\ ULt(ret.a.y, U32((FaceOrd(ret.p.face) + 1) * arg.res))

====
